---- MODULE Spec2Model ----
(***************************************************************************)
(* Model of the infinity-sampler crate: the slot indexer                   *)
(* (InfinitySamplerIndexer / ReverseInfinitySamplerIndexer, iter.rs), the  *)
(* sampling gate (SamplingRate, rate.rs), the slot (Item, item.rs) and the *)
(* reservoirs with their chronological iterator (RawReservoir,             *)
(* SamplingReservoir, ReservoirOrderedIter, buf.rs).                       *)
(*                                                                         *)
(* Spec   : one object (an indexer, a RawReservoir or a SamplingReservoir  *)
(*          of capacity N) is constructed and then driven by its methods.  *)
(* SpecFn : the associated functions of RawReservoir (_naive_storage_index,*)
(*          _optimized_storage_index, _pattern_index_for_in_loop_index)    *)
(*          applied to one input.                                          *)
(***************************************************************************)
EXTENDS Integers, Sequences, FiniteSets, TLC

\* ---------------------------------------------------------------- bounds
\* capacities are 2^1 .. 2^MaxLogN
MaxLogN == 4
\* steps taken by a stand-alone indexer
MaxSteps == 52
\* values written into a RawReservoir
MaxWrites == 40
\* observations presented to a SamplingReservoir
MaxSeen == 70
\* largest inner_index handed to the storage-index functions
MaxIndex == 1023
\* reverse() calls made on one indexer
MaxTurns == 2
\* next() calls made between reverse() calls from the second reverse() on
MaxReplay == 9

RECURSIVE Pow2(_)
Pow2(e) == IF e = 0 THEN 1 ELSE 2 * Pow2(e - 1)

Capacities == { Pow2(e) : e \in 1..MaxLogN }

Min(a, b) == IF a < b THEN a ELSE b
Max(a, b) == IF a < b THEN b ELSE a

\* ------------------------------------------------------------ encodings
\* Option::None of an Option<usize> return value
None == -1
\* a panic of the called function (arithmetic overflow, division by zero,
\* failed debug_assert)
Panic == -2
\* "function not called yet" in SpecFn
NotCalled == -3
\* MaybeUninit::uninit(), or a value that has been moved out
Uninit == -1
\* key of an empty slot in into_ordered_iter; insertion indexes stay far below
USIZE_MAX == 2147483647
\* bits of a usize: shift amounts are masked to 0..63 without overflow checks
USIZE_BITS == 64

VARIABLES
    N,            \* const generic N of the constructed object
    kind,         \* "indexer" | "raw" | "sampling" : the constructed object
    iter,         \* InfinitySamplerIndexer fields (stand-alone or RawReservoir.iter)
    reversed,     \* TRUE once reverse() turned it into a ReverseInfinitySamplerIndexer
    hist,         \* hist[m+1]: index returned by InfinitySamplerIndexer::next when
                  \* position m was first passed (any owner)
    rhist,        \* items returned so far by ReverseInfinitySamplerIndexer::next
    ret,          \* last Option<usize> returned by an indexer's next()
    turns,        \* number of reverse() calls made so far
    mark,         \* position at which reverse() was last called
    fhist,        \* indexes returned by InfinitySamplerIndexer::next since it was
                  \* last produced by ReverseInfinitySamplerIndexer::reverse
    buf,          \* RawReservoir.buf : 0..N-1 -> Item
    fill_level,   \* RawReservoir.fill_level
    sample_rate,  \* SamplingReservoir.sample_rate : SamplingRate fields
    seen,         \* number of values presented so far (the next value fed)
    outcome,      \* last SamplingOutcome returned by sample()
    ordered,      \* ReservoirOrderedIter fields once into_ordered_iter() ran
    stored,       \* values held by the reservoir when into_ordered_iter() ran
    yielded,      \* values returned so far by ReservoirOrderedIter::next
    written,      \* values passed to RawReservoir::write so far, in order
    discarded,    \* value carried by the last SamplingOutcome::Discarded, or None
    released,     \* values given up by the reservoir so far: handed back in
                  \* Discarded, dropped, or yielded by the ordered iterator
    dropped,      \* TRUE once the reservoir or its ordered iterator was dropped
    constructed,  \* "none" | "ok" | "panic" : result of RawReservoir::new or
                  \* SamplingRate::new
    rate_arg,     \* SpecRate: argument of the last call on the SamplingRate
    divided,      \* SpecRate: number of div() calls made so far
    inner_index,  \* SpecFn: the argument
    debug,        \* SpecFn: build with overflow checks and debug assertions
    fnres         \* SpecFn: results of the three functions

vars == << N, kind, iter, reversed, hist, rhist, ret, turns, mark, fhist, buf, fill_level,
           sample_rate, seen, outcome, ordered, stored, yielded,
           written, discarded, released, dropped, constructed,
           rate_arg, divided, inner_index, debug, fnres >>

fnVars == << inner_index, debug, fnres >>
rateVars == << rate_arg, divided >>
idxVars == << reversed, hist, rhist, ret, turns, mark, fhist >>
resVars == << buf, fill_level, sample_rate, seen, outcome, ordered, stored, yielded,
             written, discarded, released, dropped, constructed >>

\* ----------------------------------------------------------------- u32
\* A u32 is held as the integer with the same 32-bit pattern read as two's
\* complement: values below 2^31 are themselves, a value x >= 2^31 is x - 2^32.
I32_MAX == 2147483647
\* 2^31 and u32::MAX in this representation
U32_TOP_BIT == -I32_MAX - 1
U32_MAX == -1

\* the low and the high 16 bits of a u32
Lo16(x) == x % 65536
Hi16(x) == ((x - Lo16(x)) \div 65536) % 65536
FromLimbs(hi, lo) == IF hi < 32768 THEN hi * 65536 + lo ELSE (hi - 65536) * 65536 + lo

\* a < b as unsigned numbers
u32_lt(a, b) ==
    IF (a >= 0) = (b >= 0) THEN a < b ELSE a >= 0

\* x + 1 overflows a u32
u32_inc_overflows(x) == x = U32_MAX
\* x + 1 modulo 2^32
u32_wrapping_inc(x) ==
    IF x = I32_MAX THEN U32_TOP_BIT ELSE IF x = U32_MAX THEN 0 ELSE x + 1

\* x * r overflows a u32 (0 <= r < 2^15)
u32_mul_overflows(x, r) == Hi16(x) * r + (Lo16(x) * r) \div 65536 >= 65536
\* x * r modulo 2^32 (0 <= r < 2^15)
u32_wrapping_mul(x, r) ==
    LET p == Lo16(x) * r
        h == Hi16(x) * r + p \div 65536
    IN  FromLimbs(h % 65536, p % 65536)

\* a % d as unsigned numbers, d # 0
u32_rem(a, d) ==
    IF a >= 0 /\ d > 0 THEN a % d
    ELSE IF a >= 0 THEN a
    ELSE IF d < 0 THEN (IF a >= d THEN a - d ELSE a)
    ELSE LET r1 == (a + I32_MAX + 1) % d
             r2 == ((I32_MAX % d) + 1) % d
         IN  IF r1 >= d - r2 THEN r1 - (d - r2) ELSE r1 + r2

\* ------------------------------------------------------------- item.rs
Item_empty == [insertion_index |-> 0, value |-> Uninit]

\* variant of Item::write that stores the value but leaves the tag as it was
Item_write_NoTag(self, index, value) ==
    [insertion_index |-> self.insertion_index, value |-> value]

\* Item::write: the old value (if any) is replaced, tag and value are set
Item_write(self, index, value) == [insertion_index |-> index, value |-> value]

\* Item::write: the value returned as the old one (None for an empty slot)
Item_write_old_value(self) == IF self.insertion_index # 0 THEN self.value ELSE None

\* Drop for Item: the value that is dropped (None for an empty slot)
Item_drop(self) == IF self.insertion_index # 0 THEN self.value ELSE None

\* the values dropped when an array of items is dropped, element by element
RECURSIVE DropItems(_, _)
DropItems(items, i) ==
    IF i = N THEN << >>
    ELSE LET rest == DropItems(items, i + 1)
             d == Item_drop(items[i])
         IN  IF d = None THEN rest ELSE << d >> \o rest

\* variant of take_unchecked that reads the value out but leaves the tag set
Item_take_unchecked_KeepTag(self) == [ret |-> self.value, self |-> self]

\* Item::take_unchecked: the tag is cleared and the value is moved out
Item_take_unchecked(self) ==
    [ret |-> self.value, self |-> [insertion_index |-> 0, value |-> Uninit]]

\* ------------------------------------------------------------- rate.rs
\* SamplingRate::new asserts divisor > 0
SamplingRate_new_panics(divisor) == divisor = 0

SamplingRate_new(divisor) == [divisor |-> divisor, counter |-> 0]

\* variant of step that does not reduce the stored counter modulo the divisor
SamplingRate_step_NoWrap(self) ==
    LET c == self.counter + 1
    IN  [ret |-> (c % self.divisor = 0), self |-> [self EXCEPT !.counter = c]]

SamplingRate_step(self) ==
    LET c == u32_rem(u32_wrapping_inc(self.counter), self.divisor)
    IN  [ret |-> (c = 0), self |-> [self EXCEPT !.counter = c]]

\* step: "counter += 1" panics on overflow in a build with overflow checks
SamplingRate_step_panics(self) == debug /\ u32_inc_overflows(self.counter)

\* variant of div that scales the counter instead of the divisor
SamplingRate_div_Counter(self, ratio) == [self EXCEPT !.counter = @ * ratio]

\* variant of div that adds the ratio instead of multiplying by it
SamplingRate_div_Add(self, ratio) == [self EXCEPT !.divisor = @ + ratio]

\* div: "divisor *= ratio" on a u32 wraps modulo 2^32 (0 <= ratio < 2^15)
SamplingRate_div(self, ratio) == [self EXCEPT !.divisor = u32_wrapping_mul(@, ratio)]

\* div asserts ratio > 0, and the product panics on overflow in a build with
\* overflow checks
SamplingRate_div_panics(self, ratio) ==
    ratio = 0 \/ (debug /\ u32_mul_overflows(self.divisor, ratio))

\* ------------------------------------------------------------- iter.rs
InfinitySamplerIndexer_new == [iterator_pos |-> 0, idx |-> 1, left_offset |-> 1, step |-> 2]

\* variant of next that never restarts the loop: the last pattern is followed
\* by "the next pattern"
InfinitySamplerIndexer_next_NoRestart(self) ==
    LET idx == self.iterator_pos
        s1  == [self EXCEPT !.iterator_pos = @ + 1]
    IN  IF idx < N THEN [ret |-> idx, self |-> s1]
        ELSE IF s1.idx = N - 1
             THEN [ret |-> s1.idx,
                   self |-> [s1 EXCEPT !.left_offset = @ + 1, !.step = @ * 2,
                                       !.idx = s1.left_offset + 1]]
             ELSE IF s1.idx + s1.step >= N
                  THEN [ret |-> s1.idx,
                        self |-> [s1 EXCEPT !.left_offset = @ + 1,
                                            !.idx = s1.left_offset + 1]]
                  ELSE [ret |-> s1.idx, self |-> [s1 EXCEPT !.idx = @ + s1.step]]

\* variant of next whose restart of the loop keeps the step of the last pattern
InfinitySamplerIndexer_next_StaleStep(self) ==
    LET idx == self.iterator_pos
        s1  == [self EXCEPT !.iterator_pos = @ + 1]
    IN  IF idx < N THEN [ret |-> idx, self |-> s1]
        ELSE IF s1.idx = N - 1
             THEN IF s1.left_offset = N - 1
                  THEN [ret |-> s1.idx,
                        self |-> [s1 EXCEPT !.left_offset = 1, !.idx = 1]]
                  ELSE [ret |-> s1.idx,
                        self |-> [s1 EXCEPT !.left_offset = @ + 1, !.step = @ * 2,
                                            !.idx = s1.left_offset + 1]]
             ELSE IF s1.idx + s1.step >= N
                  THEN [ret |-> s1.idx,
                        self |-> [s1 EXCEPT !.left_offset = @ + 1,
                                            !.idx = s1.left_offset + 1]]
                  ELSE [ret |-> s1.idx, self |-> [s1 EXCEPT !.idx = @ + s1.step]]

\* variant of next whose restart of the loop goes back to slot 0
InfinitySamplerIndexer_next_RestartAtZero(self) ==
    LET idx == self.iterator_pos
        s1  == [self EXCEPT !.iterator_pos = @ + 1]
    IN  IF idx < N THEN [ret |-> idx, self |-> s1]
        ELSE IF s1.idx = N - 1
             THEN IF s1.left_offset = N - 1
                  THEN [ret |-> s1.idx,
                        self |-> [s1 EXCEPT !.left_offset = 0, !.step = 2, !.idx = 0]]
                  ELSE [ret |-> s1.idx,
                        self |-> [s1 EXCEPT !.left_offset = @ + 1, !.step = @ * 2,
                                            !.idx = s1.left_offset + 1]]
             ELSE IF s1.idx + s1.step >= N
                  THEN [ret |-> s1.idx,
                        self |-> [s1 EXCEPT !.left_offset = @ + 1,
                                            !.idx = s1.left_offset + 1]]
                  ELSE [ret |-> s1.idx, self |-> [s1 EXCEPT !.idx = @ + s1.step]]

InfinitySamplerIndexer_next(self) ==
    LET idx == self.iterator_pos
        s1  == [self EXCEPT !.iterator_pos = @ + 1]
    IN  IF idx < N THEN [ret |-> idx, self |-> s1]
        ELSE IF s1.idx = N - 1
             THEN IF s1.left_offset = N - 1
                  THEN [ret |-> s1.idx,
                        self |-> [s1 EXCEPT !.left_offset = 1, !.step = 2, !.idx = 1]]
                  ELSE [ret |-> s1.idx,
                        self |-> [s1 EXCEPT !.left_offset = @ + 1, !.step = @ * 2,
                                            !.idx = s1.left_offset + 1]]
             ELSE IF s1.idx + s1.step >= N
                  THEN [ret |-> s1.idx,
                        self |-> [s1 EXCEPT !.left_offset = @ + 1,
                                            !.idx = s1.left_offset + 1]]
                  ELSE [ret |-> s1.idx, self |-> [s1 EXCEPT !.idx = @ + s1.step]]

\* InfinitySamplerIndexer::reverse copies the four fields
InfinitySamplerIndexer_reverse(self) ==
    [iterator_pos |-> self.iterator_pos, idx |-> self.idx,
     left_offset |-> self.left_offset, step |-> self.step]

\* variant of the reverse indexer's reverse that keeps the position but starts
\* the forward indexer from the state of a new one
ReverseInfinitySamplerIndexer_reverse_Reset(self) ==
    [iterator_pos |-> self.iterator_pos, idx |-> 1, left_offset |-> 1, step |-> 2]

\* ReverseInfinitySamplerIndexer::reverse copies the four fields
ReverseInfinitySamplerIndexer_reverse(self) ==
    [iterator_pos |-> self.iterator_pos, idx |-> self.idx,
     left_offset |-> self.left_offset, step |-> self.step]

\* variant of the reverse next that keeps the step at the end of a pattern
ReverseInfinitySamplerIndexer_next_NoHalve(self) ==
    IF self.iterator_pos = 0 THEN [ret |-> None, self |-> self]
    ELSE LET s1 == [self EXCEPT !.iterator_pos = @ - 1]
         IN  IF s1.iterator_pos < N THEN [ret |-> s1.iterator_pos, self |-> s1]
             ELSE IF s1.idx = 1
                  THEN [ret |-> N - 1,
                        self |-> [s1 EXCEPT !.left_offset = N - 1, !.step = N, !.idx = N - 1]]
                  ELSE IF s1.idx = s1.left_offset
                       THEN LET st == s1.step
                                lo == s1.left_offset - 1
                            IN  [ret |-> lo + N - st,
                                 self |-> [s1 EXCEPT !.step = st, !.left_offset = lo,
                                                     !.idx = lo + N - st]]
                       ELSE [ret |-> s1.idx - s1.step,
                             self |-> [s1 EXCEPT !.idx = @ - s1.step]]

ReverseInfinitySamplerIndexer_next(self) ==
    IF self.iterator_pos = 0 THEN [ret |-> None, self |-> self]
    ELSE LET s1 == [self EXCEPT !.iterator_pos = @ - 1]
         IN  IF s1.iterator_pos < N THEN [ret |-> s1.iterator_pos, self |-> s1]
             ELSE IF s1.idx = 1
                  THEN [ret |-> N - 1,
                        self |-> [s1 EXCEPT !.left_offset = N - 1, !.step = N, !.idx = N - 1]]
                  ELSE IF s1.idx = s1.left_offset
                       THEN LET st == IF s1.left_offset = s1.step \div 2
                                      THEN s1.step \div 2 ELSE s1.step
                                lo == s1.left_offset - 1
                            IN  [ret |-> lo + N - st,
                                 self |-> [s1 EXCEPT !.step = st, !.left_offset = lo,
                                                     !.idx = lo + N - st]]
                       ELSE [ret |-> s1.idx - s1.step,
                             self |-> [s1 EXCEPT !.idx = @ - s1.step]]

\* -------------------------------------------------------------- buf.rs
RawReservoir_new_buf == [i \in 0..(N - 1) |-> Item_empty]

\* variant of write that counts fill_level without a ceiling
RawReservoir_write_NoCap(b, it, fl, value) ==
    LET iter_position == it.iterator_pos
        nx == InfinitySamplerIndexer_next(it)
        insert_index == nx.ret
    IN  [buf |-> [b EXCEPT ![insert_index] = Item_write(@, iter_position + 1, value)],
         iter |-> nx.self,
         fill_level |-> fl + 1,
         insert_index |-> insert_index,
         dropped |-> Item_write_old_value(b[insert_index])]

\* variant of write that reads the indexer position after next()
RawReservoir_write_TagAfterNext(b, it, fl, value) ==
    LET nx == InfinitySamplerIndexer_next(it)
        insert_index == nx.ret
        iter_position == nx.self.iterator_pos
    IN  [buf |-> [b EXCEPT ![insert_index] = Item_write(@, iter_position + 1, value)],
         iter |-> nx.self,
         fill_level |-> Min(fl, N - 1) + 1,
         insert_index |-> insert_index,
         dropped |-> Item_write_old_value(b[insert_index])]

\* RawReservoir::len (SamplingReservoir::len delegates to it)
RawReservoir_len(fl) == fl

\* variant of write that caps fill_level at N - 1
RawReservoir_write_CapBelow(b, it, fl, value) ==
    LET iter_position == it.iterator_pos
        nx == InfinitySamplerIndexer_next(it)
        insert_index == nx.ret
    IN  [buf |-> [b EXCEPT ![insert_index] = Item_write(@, iter_position + 1, value)],
         iter |-> nx.self,
         fill_level |-> Min(fl + 1, N - 1),
         insert_index |-> insert_index,
         dropped |-> Item_write_old_value(b[insert_index])]

\* RawReservoir::write on the fields (buf, iter, fill_level)
RawReservoir_write(b, it, fl, value) ==
    LET iter_position == it.iterator_pos
        nx == InfinitySamplerIndexer_next(it)
        insert_index == nx.ret
    IN  [buf |-> [b EXCEPT ![insert_index] = Item_write(@, iter_position + 1, value)],
         iter |-> nx.self,
         fill_level |-> Min(fl, N - 1) + 1,
         insert_index |-> insert_index,
         dropped |-> Item_write_old_value(b[insert_index])]

\* usize::trailing_zeros
RECURSIVE trailing_zeros(_)
trailing_zeros(x) ==
    IF x = 0 THEN USIZE_BITS
    ELSE IF x % 2 = 1 THEN 0 ELSE 1 + trailing_zeros(x \div 2)

\* x >> s on usize, for x below 2^31
Shr(x, s) == IF s >= 31 THEN 0 ELSE x \div Pow2(s)

INDEXING_LOOP_SIZE == N * 2
IN_GROUP_BITS == trailing_zeros(N \div 2)

_pattern_base_exp_for_in_loop_index(in_loop_index) == Shr(in_loop_index, IN_GROUP_BITS)

_pattern_base_for_in_loop_index(in_loop_index) ==
    Pow2(_pattern_base_exp_for_in_loop_index(in_loop_index))

\* IN_GROUP_BITS - pattern_base_exp underflows when the exponent exceeds
\* IN_GROUP_BITS: a panic with overflow checks; without them the difference
\* wraps and the shift amount is masked to the low 6 bits
_pattern_index_for_in_loop_index(in_loop_index0) ==
    LET in_loop_index == in_loop_index0 % INDEXING_LOOP_SIZE
        pattern_base_exp == _pattern_base_exp_for_in_loop_index(in_loop_index)
        pattern_base == _pattern_base_for_in_loop_index(in_loop_index)
        diff == IN_GROUP_BITS - pattern_base_exp
    IN  IF diff < 0 /\ debug THEN Panic
        ELSE pattern_base
               + (Shr(in_loop_index, diff % USIZE_BITS) % Pow2(pattern_base_exp))

\* the labelled loop of _naive_storage_index; k counts the iterations left
\* of `for _ in 0..group_instances`
RECURSIVE NaiveLoop(_, _, _, _, _, _)
NaiveLoop(pattern_index, group_size, group_step, group_instances, remainder, k) ==
    IF k = 0
    THEN NaiveLoop(pattern_index, Max(group_size \div 2, 1), group_step * 2,
                   group_instances * 2, remainder, group_instances * 2)
    ELSE IF remainder < group_size
         THEN pattern_index + remainder * group_step
         ELSE NaiveLoop(pattern_index + 1, group_size, group_step, group_instances,
                        remainder - group_size, k - 1)

_naive_storage_index(inner_index_) ==
    IF inner_index_ < N THEN inner_index_
    ELSE LET in_loop_index == (inner_index_ - N) % INDEXING_LOOP_SIZE
         IN  NaiveLoop(1, N \div 2, 2, 1, in_loop_index, 1)

\* `in_loop_index % group_size` panics in every build when group_size is 0
_optimized_storage_index(inner_index_) ==
    IF inner_index_ < N THEN inner_index_
    ELSE LET in_loop_index == (inner_index_ - N) % INDEXING_LOOP_SIZE
             pattern_index == _pattern_index_for_in_loop_index(in_loop_index)
             left_offset == pattern_index
             pattern_base_exp == _pattern_base_exp_for_in_loop_index(in_loop_index)
             pattern_base == _pattern_base_for_in_loop_index(in_loop_index)
             group_size == (N \div 2) \div pattern_base
         IN  IF pattern_index = Panic \/ group_size = 0 THEN Panic
             ELSE LET pattern_offset == in_loop_index % group_size
                      pattern_step == Pow2(pattern_base_exp + 1)
                      idx == left_offset + pattern_offset * pattern_step
                  IN  IF debug /\ ~(idx < N) THEN Panic ELSE idx

\* variant of the key closure that sorts empty slots first
SortKey_NoneFirst(x) == IF x.insertion_index # 0 THEN x.insertion_index ELSE 0

\* the key closure of into_ordered_iter
SortKey(x) == IF x.insertion_index # 0 THEN x.insertion_index ELSE USIZE_MAX

\* sort_unstable_by_key: slots with equal keys are empty slots, which are
\* indistinguishable, so the sorted array is unique
SortByKey(b) ==
    LET rank(i) == Cardinality({ j \in DOMAIN b :
                        \/ SortKey(b[j]) < SortKey(b[i])
                        \/ SortKey(b[j]) = SortKey(b[i]) /\ j < i })
    IN  [r \in DOMAIN b |-> b[CHOOSE i \in DOMAIN b : rank(i) = r]]

RawReservoir_into_ordered_iter(b, fl) ==
    [active |-> TRUE, buf |-> SortByKey(b), len |-> fl, pos |-> 0]

\* ReservoirOrderedIter::as_slice: the items in positions 0..len-1
ReservoirOrderedIter_as_slice(o) == [i \in 0..(o.len - 1) |-> o.buf[i]]

\* variant of sample that reports the calls in which it reduced the rate
SamplingReservoir_sample_ReportsHalving(rate, b, it, fl, value) ==
    LET st == SamplingRate_step(rate)
    IN  IF st.ret
        THEN LET due == /\ it.iterator_pos >= N
                        /\ (it.iterator_pos - N) % (N \div 2) = 0
                 r2 == IF due THEN SamplingRate_div(st.self, 2) ELSE st.self
                 w == RawReservoir_write(b, it, fl, value)
             IN  [sample_rate |-> r2, buf |-> w.buf, iter |-> w.iter,
                  fill_level |-> w.fill_level, insert_index |-> w.insert_index,
                  outcome |-> IF due THEN "ConsumedAndRateReduced" ELSE "Consumed",
                  discarded |-> None, dropped |-> w.dropped]
        ELSE [sample_rate |-> st.self, buf |-> b, iter |-> it,
              fill_level |-> fl, insert_index |-> None,
              outcome |-> "Discarded", discarded |-> value, dropped |-> None]

\* variant of sample that steps the indexer for a discarded value too
SamplingReservoir_sample_StepOnDiscard(rate, b, it, fl, value) ==
    LET st == SamplingRate_step(rate)
    IN  IF st.ret
        THEN LET r2 == IF /\ it.iterator_pos >= N
                          /\ (it.iterator_pos - N) % (N \div 2) = 0
                       THEN SamplingRate_div(st.self, 2)
                       ELSE st.self
                 w == RawReservoir_write(b, it, fl, value)
             IN  [sample_rate |-> r2, buf |-> w.buf, iter |-> w.iter,
                  fill_level |-> w.fill_level, insert_index |-> w.insert_index,
                  outcome |-> "Consumed", discarded |-> None, dropped |-> w.dropped]
        ELSE [sample_rate |-> st.self, buf |-> b,
              iter |-> InfinitySamplerIndexer_next(it).self,
              fill_level |-> fl, insert_index |-> None,
              outcome |-> "Discarded", discarded |-> value, dropped |-> None]

\* variant of sample whose halvings after the first come every N accepted values
SamplingReservoir_sample_HalveEveryN(rate, b, it, fl, value) ==
    LET st == SamplingRate_step(rate)
    IN  IF st.ret
        THEN LET r2 == IF /\ it.iterator_pos >= N
                          /\ (it.iterator_pos - N) % N = 0
                       THEN SamplingRate_div(st.self, 2)
                       ELSE st.self
                 w == RawReservoir_write(b, it, fl, value)
             IN  [sample_rate |-> r2, buf |-> w.buf, iter |-> w.iter,
                  fill_level |-> w.fill_level, insert_index |-> w.insert_index,
                  outcome |-> "Consumed", discarded |-> None, dropped |-> w.dropped]
        ELSE [sample_rate |-> st.self, buf |-> b, iter |-> it,
              fill_level |-> fl, insert_index |-> None,
              outcome |-> "Discarded", discarded |-> value, dropped |-> None]

\* variant of sample that consults the halving schedule after the write
SamplingReservoir_sample_HalveAfterWrite(rate, b, it, fl, value) ==
    LET st == SamplingRate_step(rate)
    IN  IF st.ret
        THEN LET w == RawReservoir_write(b, it, fl, value)
                 r2 == IF /\ w.iter.iterator_pos >= N
                          /\ (w.iter.iterator_pos - N) % (N \div 2) = 0
                       THEN SamplingRate_div(st.self, 2)
                       ELSE st.self
             IN  [sample_rate |-> r2, buf |-> w.buf, iter |-> w.iter,
                  fill_level |-> w.fill_level, insert_index |-> w.insert_index,
                  outcome |-> "Consumed", discarded |-> None, dropped |-> w.dropped]
        ELSE [sample_rate |-> st.self, buf |-> b, iter |-> it,
              fill_level |-> fl, insert_index |-> None,
              outcome |-> "Discarded", discarded |-> value, dropped |-> None]

\* variant of sample whose first halving comes one pattern late
SamplingReservoir_sample_LateHalving(rate, b, it, fl, value) ==
    LET st == SamplingRate_step(rate)
    IN  IF st.ret
        THEN LET r2 == IF /\ it.iterator_pos > N
                          /\ (it.iterator_pos - N) % (N \div 2) = 0
                       THEN SamplingRate_div(st.self, 2)
                       ELSE st.self
                 w == RawReservoir_write(b, it, fl, value)
             IN  [sample_rate |-> r2, buf |-> w.buf, iter |-> w.iter,
                  fill_level |-> w.fill_level, insert_index |-> w.insert_index,
                  outcome |-> "Consumed", discarded |-> None, dropped |-> w.dropped]
        ELSE [sample_rate |-> st.self, buf |-> b, iter |-> it,
              fill_level |-> fl, insert_index |-> None,
              outcome |-> "Discarded", discarded |-> value, dropped |-> None]

\* SamplingReservoir::sample on the fields (sample_rate, inner.buf, inner.iter,
\* inner.fill_level)
SamplingReservoir_sample(rate, b, it, fl, value) ==
    LET st == SamplingRate_step(rate)
    IN  IF SamplingRate_step_panics(rate)
        THEN [sample_rate |-> rate, buf |-> b, iter |-> it,
              fill_level |-> fl, insert_index |-> None,
              outcome |-> "Panic", discarded |-> None, dropped |-> value]
        ELSE IF st.ret
        THEN LET due == /\ it.iterator_pos >= N
                        /\ (it.iterator_pos - N) % (N \div 2) = 0
                 r2 == IF due THEN SamplingRate_div(st.self, 2) ELSE st.self
                 w == RawReservoir_write(b, it, fl, value)
             IN  IF due /\ SamplingRate_div_panics(st.self, 2)
                 THEN \* div(2) panics before the write; the value is dropped
                      [sample_rate |-> st.self, buf |-> b, iter |-> it,
                       fill_level |-> fl, insert_index |-> None,
                       outcome |-> "Panic", discarded |-> None, dropped |-> value]
                 ELSE [sample_rate |-> r2, buf |-> w.buf, iter |-> w.iter,
                       fill_level |-> w.fill_level, insert_index |-> w.insert_index,
                       outcome |-> "Consumed", discarded |-> None, dropped |-> w.dropped]
        ELSE [sample_rate |-> st.self, buf |-> b, iter |-> it,
              fill_level |-> fl, insert_index |-> None,
              outcome |-> "Discarded", discarded |-> value, dropped |-> None]

\* ------------------------------------------------------------- actions
NoOrdered == [active |-> FALSE, buf |-> << >>, len |-> 0, pos |-> 0]

Init ==
    /\ N \in Capacities
    /\ kind \in {"indexer", "raw", "sampling"}
    /\ iter = InfinitySamplerIndexer_new
    /\ reversed = FALSE
    /\ hist = << >>
    /\ rhist = << >>
    /\ ret = None
    /\ turns = 0
    /\ mark = 0
    /\ fhist = << >>
    /\ buf = RawReservoir_new_buf
    /\ fill_level = 0
    /\ sample_rate = SamplingRate_new(1)
    /\ seen = 0
    /\ outcome = "none"
    /\ ordered = NoOrdered
    /\ stored = {}
    /\ yielded = << >>
    /\ written = << >>
    /\ discarded = None
    /\ released = << >>
    /\ dropped = FALSE
    /\ rate_arg = 0
    /\ divided = 0
    /\ constructed = "ok"
    /\ inner_index = 0
    /\ debug = FALSE
    /\ fnres = [optimized |-> NotCalled, naive |-> NotCalled, pattern_index |-> NotCalled]

\* InfinitySamplerIndexer::next on a stand-alone indexer
IndexerNext ==
    /\ kind = "indexer"
    /\ ~reversed
    /\ iter.iterator_pos < MaxSteps
    /\ turns >= 2 => Len(fhist) < MaxReplay
    /\ LET nx == InfinitySamplerIndexer_next(iter)
       IN  /\ iter' = nx.self
           /\ ret' = nx.ret
           /\ hist' = IF iter.iterator_pos = Len(hist) THEN Append(hist, nx.ret) ELSE hist
           /\ fhist' = IF turns > 0 THEN Append(fhist, nx.ret) ELSE fhist
    /\ UNCHANGED << N, kind, reversed, rhist, turns, mark >>
    /\ UNCHANGED resVars
    /\ UNCHANGED fnVars
    /\ UNCHANGED rateVars

\* InfinitySamplerIndexer::reverse
IndexerReverse ==
    /\ kind = "indexer"
    /\ ~reversed
    /\ turns < MaxTurns
    /\ iter' = InfinitySamplerIndexer_reverse(iter)
    /\ reversed' = TRUE
    /\ turns' = turns + 1
    /\ mark' = iter.iterator_pos
    /\ rhist' = << >>
    /\ UNCHANGED << N, kind, hist, ret, fhist >>
    /\ UNCHANGED resVars
    /\ UNCHANGED fnVars
    /\ UNCHANGED rateVars

\* ReverseInfinitySamplerIndexer::next
ReverseNext ==
    /\ kind = "indexer"
    /\ reversed
    /\ turns >= 3 => Len(rhist) < MaxReplay
    /\ LET nx == ReverseInfinitySamplerIndexer_next(iter)
       IN  /\ iter' = nx.self
           /\ ret' = nx.ret
           /\ rhist' = IF nx.ret = None THEN rhist ELSE Append(rhist, nx.ret)
    /\ UNCHANGED << N, kind, reversed, hist, turns, mark, fhist >>
    /\ UNCHANGED resVars
    /\ UNCHANGED fnVars
    /\ UNCHANGED rateVars

\* ReverseInfinitySamplerIndexer::reverse
ReverseReverse ==
    /\ kind = "indexer"
    /\ reversed
    /\ turns < MaxTurns
    /\ iter' = ReverseInfinitySamplerIndexer_reverse(iter)
    /\ reversed' = FALSE
    /\ turns' = turns + 1
    /\ mark' = iter.iterator_pos
    /\ fhist' = << >>
    /\ UNCHANGED << N, kind, hist, rhist, ret >>
    /\ UNCHANGED resVars
    /\ UNCHANGED fnVars
    /\ UNCHANGED rateVars

\* RawReservoir::write(value); the values fed are 0, 1, 2, ...
Write ==
    /\ kind = "raw"
    /\ ~ordered.active
    /\ ~dropped
    /\ seen < MaxWrites
    /\ LET w == RawReservoir_write(buf, iter, fill_level, seen)
       IN  /\ buf' = w.buf
           /\ iter' = w.iter
           /\ fill_level' = w.fill_level
           /\ hist' = Append(hist, w.insert_index)
           /\ released' = IF w.dropped = None THEN released ELSE Append(released, w.dropped)
    /\ written' = Append(written, seen)
    /\ seen' = seen + 1
    /\ UNCHANGED << N, kind, sample_rate, outcome, ordered, stored, yielded >>
    /\ UNCHANGED << discarded, dropped, constructed >>
    /\ UNCHANGED << reversed, rhist, ret, turns, mark, fhist >>
    /\ UNCHANGED fnVars
    /\ UNCHANGED rateVars

\* SamplingReservoir::sample(value); the values fed are 0, 1, 2, ...
Sample ==
    /\ kind = "sampling"
    /\ ~ordered.active
    /\ ~dropped
    /\ seen < MaxSeen
    /\ IF sample_rate.divisor = 0
       THEN \* step() runs into unreachable_unchecked(): undefined behaviour.
            \* Any result is possible; the reservoir is not followed further.
            /\ outcome' \in {"Consumed", "Discarded", "Panic", "Abort"}
            /\ dropped' = TRUE
            /\ UNCHANGED << sample_rate, buf, iter, fill_level, discarded, hist,
                            written, released >>
       ELSE LET s == SamplingReservoir_sample(sample_rate, buf, iter, fill_level, seen)
            IN  /\ sample_rate' = s.sample_rate
                /\ buf' = s.buf
                /\ iter' = s.iter
                /\ fill_level' = s.fill_level
                /\ outcome' = s.outcome
                /\ discarded' = s.discarded
                /\ hist' = IF s.outcome = "Consumed" THEN Append(hist, s.insert_index)
                           ELSE hist
                /\ written' = IF s.outcome = "Consumed" THEN Append(written, seen)
                              ELSE written
                \* a panic unwinds and drops the reservoir with the value
                /\ dropped' = (s.outcome = "Panic")
                /\ released' = IF s.outcome = "Panic"
                               THEN Append(released, s.dropped) \o DropItems(buf, 0)
                               ELSE IF s.discarded # None THEN Append(released, s.discarded)
                               ELSE IF s.dropped # None THEN Append(released, s.dropped)
                               ELSE released
    /\ seen' = seen + 1
    /\ UNCHANGED << N, kind, ordered, stored, yielded, constructed >>
    /\ UNCHANGED << reversed, rhist, ret, turns, mark, fhist >>
    /\ UNCHANGED fnVars
    /\ UNCHANGED rateVars

\* RawReservoir::into_ordered_iter (also reached through SamplingReservoir)
IntoOrderedIter ==
    /\ kind \in {"raw", "sampling"}
    /\ ~ordered.active
    /\ ~dropped
    /\ LET o == RawReservoir_into_ordered_iter(buf, fill_level)
       IN  /\ ordered' = o
           /\ buf' = o.buf
    /\ stored' = { buf[i].value : i \in { j \in DOMAIN buf : buf[j].insertion_index # 0 } }
    /\ UNCHANGED << N, kind, iter, fill_level, sample_rate, seen, outcome, yielded >>
    /\ UNCHANGED << written, discarded, released, dropped, constructed >>
    /\ UNCHANGED idxVars
    /\ UNCHANGED fnVars
    /\ UNCHANGED rateVars

\* ReservoirOrderedIter::next
OrderedNext ==
    /\ ordered.active
    /\ ~dropped
    /\ IF ordered.pos = ordered.len
       THEN /\ outcome' = "IterNone"
            /\ UNCHANGED << ordered, yielded, released >>
       ELSE LET t == Item_take_unchecked(ordered.buf[ordered.pos])
            IN  /\ ordered' = [ordered EXCEPT !.pos = @ + 1, !.buf[ordered.pos] = t.self]
                /\ yielded' = Append(yielded, t.ret)
                /\ released' = Append(released, t.ret)
                /\ outcome' = "IterSome"
    /\ UNCHANGED << N, kind, iter, buf, fill_level, sample_rate, seen, stored >>
    /\ UNCHANGED << written, discarded, dropped, constructed >>
    /\ UNCHANGED idxVars
    /\ UNCHANGED fnVars
    /\ UNCHANGED rateVars

\* a RawReservoir (alone or inside a SamplingReservoir) goes out of scope: its
\* buf is dropped
DropReservoir ==
    /\ kind \in {"raw", "sampling"}
    /\ ~ordered.active
    /\ ~dropped
    /\ released' = released \o DropItems(buf, 0)
    /\ dropped' = TRUE
    /\ UNCHANGED << N, kind, iter, buf, fill_level, sample_rate, seen, outcome, ordered,
                    stored, yielded, written, discarded, constructed >>
    /\ UNCHANGED idxVars
    /\ UNCHANGED fnVars
    /\ UNCHANGED rateVars

\* a ReservoirOrderedIter goes out of scope, consumed or not: its buf is dropped
DropOrderedIter ==
    /\ ordered.active
    /\ ~dropped
    /\ released' = released \o DropItems(ordered.buf, 0)
    /\ dropped' = TRUE
    /\ UNCHANGED << N, kind, iter, buf, fill_level, sample_rate, seen, outcome, ordered,
                    stored, yielded, written, discarded, constructed >>
    /\ UNCHANGED idxVars
    /\ UNCHANGED fnVars
    /\ UNCHANGED rateVars

Next ==
    \/ IndexerNext
    \/ IndexerReverse
    \/ ReverseNext
    \/ ReverseReverse
    \/ Write
    \/ Sample
    \/ IntoOrderedIter
    \/ OrderedNext
    \/ DropReservoir
    \/ DropOrderedIter

Spec == Init /\ [][Next]_vars

\* ------------------------------------------- the storage-index functions
NoResults == [optimized |-> NotCalled, naive |-> NotCalled, pattern_index |-> NotCalled]

InitFn ==
    /\ N \in Capacities
    /\ kind = "fn"
    /\ iter = InfinitySamplerIndexer_new
    /\ reversed = FALSE
    /\ hist = << >>
    /\ rhist = << >>
    /\ ret = None
    /\ turns = 0
    /\ mark = 0
    /\ fhist = << >>
    /\ buf = RawReservoir_new_buf
    /\ fill_level = 0
    /\ sample_rate = SamplingRate_new(1)
    /\ seen = 0
    /\ outcome = "none"
    /\ ordered = NoOrdered
    /\ stored = {}
    /\ yielded = << >>
    /\ written = << >>
    /\ discarded = None
    /\ released = << >>
    /\ dropped = FALSE
    /\ rate_arg = 0
    /\ divided = 0
    /\ constructed = "ok"
    /\ inner_index \in 0..MaxIndex
    /\ debug \in BOOLEAN
    /\ fnres = NoResults

CallOptimized ==
    /\ fnres.optimized = NotCalled
    /\ fnres' = [fnres EXCEPT !.optimized = _optimized_storage_index(inner_index)]
    /\ UNCHANGED << N, kind, iter, inner_index, debug >>
    /\ UNCHANGED idxVars
    /\ UNCHANGED resVars
    /\ UNCHANGED rateVars

CallNaive ==
    /\ fnres.naive = NotCalled
    /\ fnres' = [fnres EXCEPT !.naive = _naive_storage_index(inner_index)]
    /\ UNCHANGED << N, kind, iter, inner_index, debug >>
    /\ UNCHANGED idxVars
    /\ UNCHANGED resVars
    /\ UNCHANGED rateVars

CallPatternIndex ==
    /\ fnres.pattern_index = NotCalled
    /\ fnres' = [fnres EXCEPT !.pattern_index = _pattern_index_for_in_loop_index(inner_index)]
    /\ UNCHANGED << N, kind, iter, inner_index, debug >>
    /\ UNCHANGED idxVars
    /\ UNCHANGED resVars
    /\ UNCHANGED rateVars

NextFn ==
    \/ CallOptimized
    \/ CallNaive
    \/ CallPatternIndex

SpecFn == InitFn /\ [][NextFn]_vars

\* ------------------------------------------------------- construction
\* largest capacity tried as the const generic N
MaxCapacity == 64

\* usize::count_ones
RECURSIVE count_ones(_)
count_ones(x) == IF x = 0 THEN 0 ELSE (x % 2) + count_ones(x \div 2)

\* usize::is_power_of_two
is_power_of_two(x) == count_ones(x) = 1

\* RawReservoir::new: the assertion on N is its only check
RawReservoir_new == IF is_power_of_two(N) THEN "ok" ELSE "panic"

\* SamplingReservoir::new: RawReservoir::new() and SamplingRate::new(1)
SamplingReservoir_new == RawReservoir_new

InitNew ==
    /\ N \in 0..MaxCapacity
    /\ kind \in {"new_raw", "new_sampling"}
    /\ constructed = "none"
    /\ iter = InfinitySamplerIndexer_new
    /\ reversed = FALSE
    /\ hist = << >>
    /\ rhist = << >>
    /\ ret = None
    /\ turns = 0
    /\ mark = 0
    /\ fhist = << >>
    /\ buf = << >>
    /\ fill_level = 0
    /\ sample_rate = SamplingRate_new(1)
    /\ seen = 0
    /\ outcome = "none"
    /\ ordered = NoOrdered
    /\ stored = {}
    /\ yielded = << >>
    /\ written = << >>
    /\ discarded = None
    /\ released = << >>
    /\ dropped = FALSE
    /\ rate_arg = 0
    /\ divided = 0
    /\ inner_index = 0
    /\ debug = FALSE
    /\ fnres = NoResults

\* RawReservoir::<T, N>::new()
NewRaw ==
    /\ kind = "new_raw"
    /\ constructed = "none"
    /\ constructed' = RawReservoir_new
    /\ buf' = IF RawReservoir_new = "ok" THEN RawReservoir_new_buf ELSE buf
    /\ UNCHANGED << N, kind, iter, fill_level, sample_rate, seen, outcome, ordered,
                    stored, yielded, written, discarded, released, dropped >>
    /\ UNCHANGED idxVars
    /\ UNCHANGED fnVars
    /\ UNCHANGED rateVars

\* SamplingReservoir::<T, N>::new()
NewSampling ==
    /\ kind = "new_sampling"
    /\ constructed = "none"
    /\ constructed' = SamplingReservoir_new
    /\ buf' = IF SamplingReservoir_new = "ok" THEN RawReservoir_new_buf ELSE buf
    /\ UNCHANGED << N, kind, iter, fill_level, sample_rate, seen, outcome, ordered,
                    stored, yielded, written, discarded, released, dropped >>
    /\ UNCHANGED idxVars
    /\ UNCHANGED fnVars
    /\ UNCHANGED rateVars

NextNew ==
    \/ NewRaw
    \/ NewSampling

SpecNew == InitNew /\ [][NextNew]_vars

\* ------------------------------------------------- a SamplingRate alone
\* largest small divisor passed to SamplingRate::new
MaxDivisor == 6
\* largest ratio passed to SamplingRate::div
MaxRatio == 3
\* step() calls made on one SamplingRate
MaxRateSteps == 14
\* div() calls made on one SamplingRate
MaxDivs == 2

\* divisors passed to new: 0, small ones, and u32 values near the top
RateDivisors == (0..MaxDivisor) \cup { 1073741824, U32_TOP_BIT, U32_MAX }

\* no SamplingRate yet; the build is with or without overflow checks
InitRate ==
    /\ kind = "rate"
    /\ debug \in BOOLEAN
    /\ constructed = "none"
    /\ sample_rate = [divisor |-> 0, counter |-> 0]
    /\ rate_arg = 0
    /\ divided = 0
    /\ seen = 0
    /\ outcome = "none"
    /\ dropped = FALSE
    /\ N = 0
    /\ iter = InfinitySamplerIndexer_new
    /\ reversed = FALSE
    /\ hist = << >>
    /\ rhist = << >>
    /\ ret = None
    /\ turns = 0
    /\ mark = 0
    /\ fhist = << >>
    /\ buf = << >>
    /\ fill_level = 0
    /\ ordered = NoOrdered
    /\ stored = {}
    /\ yielded = << >>
    /\ written = << >>
    /\ discarded = None
    /\ released = << >>
    /\ inner_index = 0
    /\ fnres = NoResults

\* SamplingRate::new(divisor)
RateNew ==
    /\ kind = "rate"
    /\ constructed = "none"
    /\ \E divisor \in RateDivisors :
          /\ rate_arg' = divisor
          /\ IF SamplingRate_new_panics(divisor)
             THEN constructed' = "panic" /\ outcome' = "Panic" /\ UNCHANGED sample_rate
             ELSE /\ constructed' = "ok"
                  /\ outcome' = "new"
                  /\ sample_rate' = SamplingRate_new(divisor)
    /\ UNCHANGED << N, iter, buf, fill_level, seen, ordered, stored, yielded, written,
                    discarded, released, dropped, divided >>
    /\ UNCHANGED << kind, inner_index, debug, fnres >>
    /\ UNCHANGED idxVars

\* SamplingRate::step(); seen counts the calls
RateStep ==
    /\ kind = "rate"
    /\ constructed = "ok"
    /\ ~dropped
    /\ seen < MaxRateSteps
    /\ seen' = seen + 1
    /\ rate_arg' = 0
    /\ IF sample_rate.divisor = 0
       THEN \* unreachable_unchecked(): undefined behaviour. Any result is
            \* possible; the SamplingRate is not followed further.
            /\ outcome' \in {"true", "false", "Panic", "Abort"}
            /\ dropped' = TRUE
            /\ UNCHANGED sample_rate
       ELSE IF SamplingRate_step_panics(sample_rate)
       THEN outcome' = "Panic" /\ dropped' = TRUE /\ UNCHANGED sample_rate
       ELSE LET st == SamplingRate_step(sample_rate)
            IN  /\ sample_rate' = st.self
                /\ outcome' = IF st.ret THEN "true" ELSE "false"
                /\ UNCHANGED dropped
    /\ UNCHANGED << N, iter, buf, fill_level, ordered, stored, yielded, written,
                    discarded, released, constructed, divided >>
    /\ UNCHANGED << kind, inner_index, debug, fnres >>
    /\ UNCHANGED idxVars

\* SamplingRate::div(ratio)
RateDiv ==
    /\ kind = "rate"
    /\ constructed = "ok"
    /\ ~dropped
    /\ divided < MaxDivs
    /\ \E ratio \in 0..MaxRatio :
          /\ rate_arg' = ratio
          /\ IF SamplingRate_div_panics(sample_rate, ratio)
             THEN outcome' = "Panic" /\ dropped' = TRUE /\ UNCHANGED sample_rate
             ELSE /\ sample_rate' = SamplingRate_div(sample_rate, ratio)
                  /\ outcome' = "div"
                  /\ UNCHANGED dropped
    /\ divided' = divided + 1
    /\ UNCHANGED << N, iter, buf, fill_level, seen, ordered, stored, yielded, written,
                    discarded, released, constructed >>
    /\ UNCHANGED << kind, inner_index, debug, fnres >>
    /\ UNCHANGED idxVars

NextRate ==
    \/ RateNew
    \/ RateStep
    \/ RateDiv

SpecRate == InitRate /\ [][NextRate]_vars

\* ---------------------------------------------------------- properties
\* values held in the occupied slots of the reservoir
Retained == { buf[i].value : i \in { j \in DOMAIN buf : buf[j].insertion_index # 0 } }

\* the reservoir is a SamplingReservoir that has not been turned into an iterator
Sampling == kind = "sampling" /\ ~ordered.active

\* largest k with n * 2^k <= m, for m >= n > 0: floor(log2(m / n))
RECURSIVE FloorLog2Ratio(_, _)
FloorLog2Ratio(m, n) == IF m < 2 * n THEN 0 ELSE 1 + FloorLog2Ratio(m, 2 * n)

\* ceil(log2(m / n))
CeilLog2Ratio(m, n) ==
    LET k == FloorLog2Ratio(m, n)
    IN  IF m = n * Pow2(k) THEN k ELSE k + 1

\* C1: whenever a SamplingReservoir of capacity N has been fed exactly
\* N * 2^M sequential values 0, 1, 2, ..., the stored values are exactly
\* { i * 2^M : 0 <= i < N }.
C1_EvenSpreadAtDoubling ==
    Sampling =>
        \A M \in 0..FloorLog2Ratio(Max(seen, N), N) :
            seen = N * Pow2(M) => Retained = { i * Pow2(M) : i \in 0..(N - 1) }

C1_Witness ==
    /\ Sampling
    /\ N = 16
    /\ seen = 64
    /\ Retained = { 4 * i : i \in 0..15 }

C3_OrderedIterChronological ==
    ordered.active =>
        /\ ordered.len = Cardinality(stored)
        /\ Len(yielded) = ordered.pos
        /\ ordered.pos <= ordered.len
        /\ \A i \in 1..Len(yielded) : yielded[i] \in stored
        /\ \A i \in 1..Len(yielded) : \A j \in 1..Len(yielded) :
               i < j => yielded[i] < yielded[j]
        /\ \A v \in stored :
               (\A i \in 1..Len(yielded) : yielded[i] # v)
                   => \A i \in 1..Len(yielded) : yielded[i] < v
        /\ outcome = "IterNone" => Len(yielded) = ordered.len

C3_Witness ==
    /\ ordered.active
    /\ kind = "sampling"
    /\ N = 16
    /\ seen = 50
    /\ outcome = "IterNone"
    /\ yielded = << 0, 4, 8, 12, 16, 20, 22, 24, 26, 28, 30, 32, 36, 40, 44, 48 >>

\* C4: every index returned by InfinitySamplerIndexer::next lies in [0, N),
\* and the first N indexes returned are 0, 1, ..., N-1 in that order.
C4_IndexInRange ==
    \A i \in 1..Len(hist) :
        /\ hist[i] \in 0..(N - 1)
        /\ i <= N => hist[i] = i - 1

C4_Witness ==
    /\ kind = "indexer"
    /\ N = 16
    /\ Len(hist) = 50
    /\ hist[50] = 3

C6_IndexerEqualsClosedForm ==
    \A m \in 0..(Len(hist) - 1) : hist[m + 1] = _optimized_storage_index(m)

\* C7: _optimized_storage_index and _naive_storage_index return the same
\* slot for every accepted count in 0..1024, for N = 8 and N = 16.
C7_ClosedFormEqualsNaive ==
    (N \in {8, 16} /\ fnres.optimized # NotCalled /\ fnres.naive # NotCalled)
        => fnres.optimized = fnres.naive

\* C8: for every in-cycle index (inner_index >= N) the closed form is well
\* defined (it does not panic) and yields a slot in [0, N).
C8_ClosedFormInRange ==
    (inner_index >= N /\ fnres.optimized # NotCalled)
        => fnres.optimized \in 0..(N - 1)

\* log2 of the capacity
Log2N == trailing_zeros(N)

\* length of one loop of the indexer: log2(N) patterns of N/2 steps
LoopLength == (N \div 2) * Log2N

C10_ReverseReplaysBackwards ==
    (kind = "indexer" /\ reversed) =>
        /\ Len(rhist) <= mark
        /\ mark <= Len(hist)
        /\ iter.iterator_pos = mark - Len(rhist)
        /\ \A i \in 1..Len(rhist) : rhist[i] = hist[mark - i + 1]
        /\ (ret # None /\ Len(rhist) > 0) => ret = rhist[Len(rhist)]
        /\ (ret = None /\ mark > 0) => (iter.iterator_pos = 0 /\ Len(rhist) = mark)

C10_Witness ==
    /\ kind = "indexer"
    /\ reversed
    /\ N = 16
    /\ Len(hist) = 50
    /\ Len(rhist) = 50
    /\ iter.iterator_pos = 0
    /\ ret = None

\* the indexes returned by a fresh indexer that is only ever stepped forward:
\* ForwardRun(InfinitySamplerIndexer_new, n, << >>) is s_0 .. s_{n-1}
RECURSIVE ForwardRun(_, _, _)
ForwardRun(self, n, acc) ==
    IF n = 0 THEN acc
    ELSE LET nx == InfinitySamplerIndexer_next(self)
         IN  ForwardRun(nx.self, n - 1, Append(acc, nx.ret))

\* C11: after k forward steps, reverse(), j backward steps and reverse()
\* again (at position mark = k - j), stepping forward reproduces the sequence
\* of a never-reversed indexer from position k - j onward, and the first
\* forward step returns the index the last backward step returned.
C11_ReverseRoundTrip ==
    (kind = "indexer" /\ ~reversed /\ turns >= 2) =>
        /\ iter.iterator_pos = mark + Len(fhist)
        /\ LET s == ForwardRun(InfinitySamplerIndexer_new, iter.iterator_pos, << >>)
           IN  \A i \in 1..Len(fhist) : fhist[i] = s[mark + i] /\ fhist[i] = hist[mark + i]
        /\ (Len(fhist) >= 1 /\ Len(rhist) >= 1) => fhist[1] = rhist[Len(rhist)]

C11_Witness ==
    /\ kind = "indexer"
    /\ ~reversed
    /\ turns = 2
    /\ N = 16
    /\ Len(hist) = 52
    /\ Len(rhist) = 7
    /\ mark = 43
    /\ Len(fhist) = 9
    /\ fhist[1] = rhist[7]

\* ------------------------------------------------------------------ C12
\* number of significant bits of i (0 for i = 0)
RECURSIVE bit_length(_)
bit_length(i) == IF i = 0 THEN 0 ELSE 1 + bit_length(i \div 2)

\* the stateless gate: with b the bit length of i and k = max(b - log2(N), 0),
\* accept iff the low k bits of i are zero
StatelessAccept(i) == i % Pow2(Max(bit_length(i) - Log2N, 0)) = 0

\* C12 as stated: the decision of the i-th call of sample() is the bit test on
\* the 1-indexed count i (after the call, i = seen)
C12_GateIsBitTestOneIndexed ==
    (Sampling /\ seen >= 1) => ((outcome = "Consumed") <=> StatelessAccept(seen))

\* C12 amended: the decision of sample() on an observation is the bit test on
\* the number of observations made before it (the 0-indexed count, seen - 1
\* after the call)
C12_GateIsBitTestZeroIndexed ==
    (Sampling /\ seen >= 1) => ((outcome = "Consumed") <=> StatelessAccept(seen - 1))

\* N = 16: observation number 48 (0-indexed) is accepted at divisor 4 and
\* number 49 is rejected
C12_Witness ==
    /\ Sampling /\ N = 16 /\ seen = 50 /\ outcome = "Discarded"
    /\ sample_rate.divisor = 4
    /\ StatelessAccept(48) /\ ~StatelessAccept(49)

\* ------------------------------------------------------------------ C13
\* the significant bits of i, most significant first
RECURSIVE SignificantBits(_)
SignificantBits(i) == IF i = 0 THEN << >> ELSE Append(SignificantBits(i \div 2), i % 2)

\* what is left of the significant bits of i once the log2(N) most significant
\* ones are removed is zero
RemainderIsZero(i) ==
    LET bits == SignificantBits(i)
    IN  \A p \in (Log2N + 1)..Len(bits) : bits[p] = 0

\* C13: V_i (i counted from 0; the value fed is i) is stored iff the remainder
\* of i after removing its log2(N) most significant bits is zero, and is
\* returned as Discarded otherwise
C13_StoredIffRemainderZero ==
    (Sampling /\ seen >= 1) =>
        LET i == seen - 1
        IN  IF RemainderIsZero(i)
            THEN outcome = "Consumed" /\ i \in Retained
            ELSE outcome = "Discarded" /\ i \notin Retained

\* N = 8: V_40 = 0b101000 is stored (remainder 000) after V_39 was discarded
C13_Witness ==
    /\ Sampling /\ N = 8 /\ seen = 41 /\ outcome = "Consumed"
    /\ 40 \in Retained /\ 39 \notin Retained /\ RemainderIsZero(40) /\ ~RemainderIsZero(39)

\* ------------------------------------------------------------------ C14
CeilDiv(a, b) == (a + b - 1) \div b

\* a step of the model that is one call of SamplingReservoir::sample
SampleCall == kind = "sampling" /\ seen' = seen + 1

\* C14: sample() doubles the divisor on exactly the accepted calls that find
\* AcceptedCount >= N and (AcceptedCount - N) mod (N/2) = 0 before the write,
\* and after A accepted values the divisor is 2^ceil(max(A - N, 0) / (N/2))
C14_DoublesOnSchedule ==
    [][ SampleCall =>
          LET AcceptedCount == iter.iterator_pos
              accepted == iter'.iterator_pos = AcceptedCount + 1
              due == /\ accepted
                     /\ AcceptedCount >= N
                     /\ (AcceptedCount - N) % (N \div 2) = 0
          IN  /\ accepted <=> (outcome' = "Consumed")
              /\ sample_rate'.divisor =
                     IF due THEN 2 * sample_rate.divisor ELSE sample_rate.divisor
              /\ sample_rate'.divisor =
                     Pow2(CeilDiv(Max(iter'.iterator_pos - N, 0), N \div 2)) ]_vars

\* N = 8: the 13th accepted value found AcceptedCount = 12 = N + N/2 and
\* brought the divisor to 4
C14_Witness ==
    /\ Sampling /\ N = 8 /\ outcome = "Consumed"
    /\ iter.iterator_pos = 13 /\ sample_rate.divisor = 4 /\ sample_rate.counter = 0

\* ------------------------------------------------------------------ C15
\* s = N * 2^X for some X >= 0
IsNTimesPowerOfTwo(s) == \E X \in 0..bit_length(s) : s = N * Pow2(X)

\* C15: the divisor doubles during the sample() call that follows N * 2^X
\* observations, and during no other call
C15_HalvedAtNTimesPowerOfTwo ==
    [][ SampleCall =>
          IF IsNTimesPowerOfTwo(seen)
          THEN sample_rate'.divisor = 2 * sample_rate.divisor
          ELSE sample_rate'.divisor = sample_rate.divisor ]_vars

\* N = 4: the call that followed 32 = 4 * 2^3 observations made the divisor 16
C15_Witness ==
    /\ Sampling /\ N = 4 /\ seen = 33 /\ sample_rate.divisor = 16
    /\ outcome = "Consumed" /\ IsNTimesPowerOfTwo(32)

\* ------------------------------------------------------------------ C16
\* the object is a reservoir that has not been turned into an iterator
Reservoir == kind \in {"raw", "sampling"} /\ ~ordered.active

\* C16 as stated: every occupied slot's tag is the GlobalIndex of its value, the
\* ordinal among all values presented (the value fed as number g, counted
\* from 0, is g), whether GlobalIndex counts from 0 or from 1
C16_TagIsGlobalIndex ==
    Sampling =>
        \E first \in {0, 1} :
            \A i \in DOMAIN buf :
                buf[i].insertion_index # 0 => buf[i].insertion_index = buf[i].value + first

\* C16 amended: every occupied slot's tag t is the ordinal, counted from 1,
\* among the values written (accepted) of the last value written to that slot
C16_TagIsAcceptedOrdinal ==
    Reservoir =>
        \A i \in DOMAIN buf :
            buf[i].insertion_index # 0 =>
                LET t == buf[i].insertion_index
                IN  /\ t \in 1..Len(written)
                    /\ written[t] = buf[i].value
                    /\ hist[t] = i
                    /\ \A k \in (t + 1)..Len(hist) : hist[k] # i

\* N = 2: value 8 is the 5th accepted value (after 0, 1, 2, 4) and carries tag 5
C16_Witness ==
    /\ Sampling /\ N = 2 /\ seen = 9
    /\ buf[1] = [insertion_index |-> 5, value |-> 8]
    /\ written = << 0, 1, 2, 4, 8 >>

\* ------------------------------------------------------------------ C17
\* C17: fill_level <= N, the slots 0..fill_level-1 are occupied (tag present,
\* value initialized) and the slots fill_level..N-1 are empty
C17_OccupiedPrefix ==
    Reservoir =>
        /\ fill_level \in 0..N
        /\ \A i \in 0..(fill_level - 1) :
               buf[i].insertion_index # 0 /\ buf[i].value # Uninit
        /\ \A i \in fill_level..(N - 1) : buf[i] = Item_empty

\* N = 8 during the initial fill: five slots occupied, three empty
C17_Witness ==
    /\ Sampling /\ N = 8 /\ fill_level = 5 /\ seen = 5
    /\ buf[4].insertion_index = 5 /\ buf[5] = Item_empty

\* ------------------------------------------------------------------ C18
\* C18: a rejecting sample(value) returns Discarded(value) and leaves the slots,
\* fill_level, the indexer and the divisor as they were; the counter advances
C18_DiscardChangesOnlyCounter ==
    [][ (SampleCall /\ outcome' = "Discarded") =>
          /\ discarded' = seen
          /\ buf' = buf
          /\ fill_level' = fill_level
          /\ iter' = iter
          /\ written' = written
          /\ sample_rate'.divisor = sample_rate.divisor
          /\ sample_rate'.counter = sample_rate.counter + 1 ]_vars

\* N = 4: value 5 is handed back while the divisor is 2
C18_Witness ==
    /\ Sampling /\ N = 4 /\ seen = 6 /\ outcome = "Discarded" /\ discarded = 5
    /\ sample_rate = [divisor |-> 2, counter |-> 1] /\ iter.iterator_pos = 5

\* ------------------------------------------------------------------ C19
\* number of times v occurs in the sequence s
Occurrences(s, v) == Cardinality({ i \in 1..Len(s) : s[i] = v })

\* number of occupied slots that hold v in the live reservoir or iterator
HeldCount(v) ==
    LET items == IF ordered.active THEN ordered.buf ELSE buf
    IN  IF dropped THEN 0
        ELSE Cardinality({ i \in DOMAIN items :
                             items[i].insertion_index # 0 /\ items[i].value = v })

\* C19: every value handed to sample()/write() is either still held in exactly
\* one slot or has been released exactly once, and once the reservoir or its
\* ordered iterator is dropped every value has been released exactly once
C19_ReleasedExactlyOnce ==
    kind \in {"raw", "sampling"} =>
        /\ \A v \in 0..(seen - 1) : Occurrences(released, v) + HeldCount(v) = 1
        /\ \A i \in 1..Len(released) : released[i] \in 0..(seen - 1)
        /\ \A v \in 0..(seen - 1) : Occurrences(yielded, v) <= 1

\* N = 4, ten values: three handed back, three overwritten, two yielded and the
\* last two dropped with the partially consumed iterator
C19_Witness ==
    /\ kind = "sampling" /\ N = 4 /\ seen = 10 /\ ordered.active /\ dropped
    /\ Len(yielded) = 2 /\ Len(released) = 10
    /\ released = << 1, 5, 3, 7, 2, 9, 0, 4, 6, 8 >>

\* ------------------------------------------------------------------ C20
\* C20: construction fails for every N <= 1 and every N that is not a power of
\* two, and succeeds only for a power-of-two N > 1
C20_NewFailsUnlessPowerOfTwoAboveOne ==
    (kind \in {"new_raw", "new_sampling"} /\ constructed # "none") =>
        ((constructed = "ok") <=> (N > 1 /\ N \in { Pow2(e) : e \in 1..bit_length(N) }))

\* ------------------------------------------------- a long-running reservoir
\* width of SamplingRate.divisor and SamplingRate.counter
U32_BITS == 32

\* 2^e as a u32, e < U32_BITS
u32_pow2(e) == IF e = 31 THEN U32_TOP_BIT ELSE Pow2(e)

\* A SamplingReservoir that has taken exactly N * 2^X observations has accepted
\* N + X * (N/2) of them, its divisor is 2^X and its counter is 2^X - 1.
\* (LateStateIsReached checks this against Spec for the X that Spec reaches.)
LateAccepted(X) == N + X * (N \div 2)
LateRate(X) ==
    [divisor |-> u32_pow2(X), counter |-> IF X = 31 THEN I32_MAX ELSE Pow2(X) - 1]

\* the fields of a RawReservoir after n writes; the n-th value written is
\* labelled -1 - n
\* (one-element sets bind intermediate results, so each is computed once; the
\* range is split in halves to keep the recursion shallow)
WriteOne(r, k) ==
    CHOOSE next \in
        { [buf |-> w.buf, iter |-> w.iter, fill_level |-> w.fill_level,
           hist |-> Append(r.hist, w.insert_index)] :
            w \in { RawReservoir_write(r.buf, r.iter, r.fill_level, -1 - k) } } : TRUE

RECURSIVE WriteRange(_, _, _)
WriteRange(r, lo, hi) ==
    IF lo > hi THEN r
    ELSE IF lo = hi THEN WriteOne(r, lo)
    ELSE CHOOSE last \in
             { WriteRange(half, ((lo + hi) \div 2) + 1, hi) :
                 half \in { WriteRange(r, lo, (lo + hi) \div 2) } } : TRUE

WriteRun(n) ==
    WriteRange([buf |-> RawReservoir_new_buf, iter |-> InfinitySamplerIndexer_new,
                fill_level |-> 0, hist |-> << >>], 1, n)

\* the tags of the slots
Tags(b) == [i \in DOMAIN b |-> b[i].insertion_index]

\* in Spec, the state after N * 2^X observations is the one InitLate starts from
LateStateIsReached ==
    \A X \in 0..(U32_BITS - 1) :
        (Sampling /\ X <= 6 /\ seen = N * Pow2(X)) =>
            /\ sample_rate = LateRate(X)
            /\ iter = WriteRun(LateAccepted(X)).iter
            /\ fill_level = WriteRun(LateAccepted(X)).fill_level
            /\ Tags(buf) = Tags(WriteRun(LateAccepted(X)).buf)
            /\ hist = WriteRun(LateAccepted(X)).hist

\* a SamplingReservoir after N * 2^X observations, X < 32; seen counts the
\* observations made from then on
InitLate ==
    /\ N \in Capacities
    /\ kind = "sampling"
    /\ debug \in BOOLEAN
    /\ \E X \in 0..(U32_BITS - 1) :
          \E w \in { WriteRun(LateAccepted(X)) } :
              /\ sample_rate = LateRate(X)
              /\ buf = w.buf
              /\ iter = w.iter
              /\ fill_level = w.fill_level
              /\ hist = w.hist
              /\ written = [i \in 1..LateAccepted(X) |-> -1 - i]
    /\ seen = 0
    /\ outcome = "none"
    /\ discarded = None
    /\ released = << >>
    /\ dropped = FALSE
    /\ rate_arg = 0
    /\ divided = 0
    /\ constructed = "ok"
    /\ ordered = NoOrdered
    /\ stored = {}
    /\ yielded = << >>
    /\ reversed = FALSE
    /\ rhist = << >>
    /\ ret = None
    /\ turns = 0
    /\ mark = 0
    /\ fhist = << >>
    /\ inner_index = 0
    /\ fnres = NoResults

NextLate ==
    \/ Sample

SpecLate == InitLate /\ [][NextLate]_vars

\* ------------------------------------------------------------------ C21
\* d is a power of two between 1 and 2^31
u32_is_power_of_two(d) == \E e \in 0..(U32_BITS - 1) : d = u32_pow2(e)

\* C21: in every sample() call the divisor is not 0 when step() runs, and after
\* the call it is a power of two >= 1 and not smaller than before
C21_DivisorOnlyDoubles ==
    [][ SampleCall =>
          /\ sample_rate.divisor # 0
          /\ u32_is_power_of_two(sample_rate'.divisor)
          /\ ~u32_lt(sample_rate'.divisor, sample_rate.divisor) ]_vars

\* ------------------------------------------------------------------ C22
\* the call of sample() stored its value
AcceptedCall == SampleCall /\ iter'.iterator_pos = iter.iterator_pos + 1

\* C22 as stated: an accepting sample() returns ConsumedAndRateReduced exactly
\* when it doubled the divisor, and Consumed exactly when it did not
C22_OutcomeReportsHalving ==
    [][ AcceptedCall =>
          /\ (outcome' = "ConsumedAndRateReduced")
                 <=> (sample_rate'.divisor # sample_rate.divisor)
          /\ (outcome' = "Consumed")
                 <=> (sample_rate'.divisor = sample_rate.divisor) ]_vars

\* C22 amended: sample() returns Consumed for every accepted value, whether or
\* not the call doubled the divisor, and Discarded for every other value
C22_AcceptedIsConsumed ==
    [][ SampleCall =>
          IF iter'.iterator_pos = iter.iterator_pos + 1
          THEN outcome' = "Consumed"
          ELSE outcome' = "Discarded" /\ sample_rate'.divisor = sample_rate.divisor ]_vars

\* N = 4: the fifth call stored value 4 and doubled the divisor, and returned
\* Consumed
C22_Witness ==
    /\ Sampling /\ N = 4 /\ seen = 5 /\ outcome = "Consumed"
    /\ sample_rate.divisor = 2 /\ iter.iterator_pos = 5 /\ 4 \in Retained

C24_AsSliceInitialized ==
    (ordered.active /\ ~dropped) =>
        \A i \in DOMAIN ReservoirOrderedIter_as_slice(ordered) :
            ReservoirOrderedIter_as_slice(ordered)[i].value # Uninit

\* ------------------------------------------------------------------ C25
\* C25: step() sets counter to (counter + 1) mod divisor, returns true iff that
\* is 0 and leaves the divisor alone; a fresh gate that was never divided
\* returns true on exactly the calls d, 2d, 3d, ...; div(ratio) multiplies the
\* divisor by ratio and leaves the counter alone; new(0) is rejected
C25_SamplingRateContract ==
    [][ kind = "rate" =>
          /\ (constructed = "none" /\ constructed' # "none") =>
                 /\ (constructed' = "panic") <=> (rate_arg' = 0)
                 /\ constructed' = "ok" =>
                        sample_rate' = [divisor |-> rate_arg', counter |-> 0]
          /\ seen' = seen + 1 =>
                 /\ outcome' \in {"true", "false"}
                 /\ sample_rate.divisor # 0
                 /\ sample_rate'.divisor = sample_rate.divisor
                 /\ sample_rate'.counter =
                        u32_rem(u32_wrapping_inc(sample_rate.counter), sample_rate.divisor)
                 /\ (outcome' = "true") <=> (sample_rate'.counter = 0)
                 /\ divided = 0 =>
                        ((outcome' = "true") <=> (u32_rem(seen', sample_rate.divisor) = 0))
          /\ (divided' = divided + 1 /\ rate_arg' > 0) =>
                 /\ outcome' = "div"
                 /\ ~u32_mul_overflows(sample_rate.divisor, rate_arg')
                 /\ sample_rate'.divisor = u32_wrapping_mul(sample_rate.divisor, rate_arg')
                 /\ sample_rate'.counter = sample_rate.counter ]_vars

\* ------------------------------------------------------------------ C26
\* steps taken past the initial fill
CyclicSteps == iter.iterator_pos - N

\* patterns completed past the initial fill
PatternsDone == CyclicSteps \div (N \div 2)

\* patterns begun past the initial fill
PatternsBegun == (CyclicSteps + (N \div 2) - 1) \div (N \div 2)

C27_SlotZeroKeepsFirst ==
    /\ kind \in {"indexer", "raw", "sampling"} =>
           /\ \A m \in (N + 1)..Len(hist) : hist[m] \in 1..(N - 1)
           /\ \A m \in 1..Len(fhist) : iter.iterator_pos - Len(fhist) + m > N
                                           => fhist[m] \in 1..(N - 1)
    /\ (Reservoir /\ ~dropped /\ fill_level > 0) =>
           /\ hist[1] = 0
           /\ \A m \in 2..Len(hist) : hist[m] # 0
           /\ written[1] = 0
           /\ buf[0] = [insertion_index |-> 1, value |-> 0]
           /\ 0 \in Retained

\* N = 4 after 33 observations and three halvings: the first observation is in
\* slot 0, the other slots have been rewritten
C27_Witness ==
    /\ Sampling /\ N = 4 /\ seen = 33 /\ ~dropped
    /\ sample_rate.divisor = 16
    /\ buf[0] = [insertion_index |-> 1, value |-> 0]
    /\ \A i \in 1..3 : buf[i].insertion_index > 4
    /\ \A m \in 5..Len(hist) : hist[m] \in 1..3

\* ------------------------------------------------------------------ C28
\* slots of b that hold a value
Occupied(b) == { i \in DOMAIN b : b[i].insertion_index # 0 }

\* C28: a write tags the slot with 1 + the indexer position before the write;
\* in every state the tags of the occupied slots are pairwise distinct and
\* ordered as the arrival of their values (the value fed is its GlobalIndex),
\* so into_ordered_iter, which sorts by tag, leaves the values in ascending
\* GlobalIndex order
C28_TagOrderIsArrivalOrder ==
    [][ /\ (Reservoir /\ written' # written) =>
              LET slot == hist'[Len(hist')]
              IN  /\ buf'[slot].insertion_index = iter.iterator_pos + 1
                  /\ buf'[slot].value = seen
                  /\ \A i \in DOMAIN buf : i # slot => buf'[i] = buf[i]
        /\ Reservoir' =>
              \A i \in Occupied(buf') : \A j \in Occupied(buf') :
                  /\ i # j => buf'[i].insertion_index # buf'[j].insertion_index
                  /\ (buf'[i].insertion_index < buf'[j].insertion_index)
                         <=> (buf'[i].value < buf'[j].value)
        /\ (Reservoir /\ ordered'.active) =>
              /\ ordered'.len = Cardinality(Occupied(buf))
              /\ { ordered'.buf[i] : i \in 0..(ordered'.len - 1) }
                     = { buf[i] : i \in Occupied(buf) }
              /\ \A i \in 0..(ordered'.len - 1) : \A j \in 0..(ordered'.len - 1) :
                     i < j => /\ ordered'.buf[i].value < ordered'.buf[j].value
                              /\ ordered'.buf[i].insertion_index
                                     < ordered'.buf[j].insertion_index ]_vars

\* N = 4 after 17 observations, turned into an iterator: slot order 0, 16, 8, 12
\* with tags 1, 9, 7, 8 has become 0, 8, 12, 16
C28_Witness ==
    /\ kind = "sampling" /\ N = 4 /\ seen = 17
    /\ ordered.active /\ ordered.pos = 0 /\ ordered.len = 4
    /\ [i \in 0..3 |-> ordered.buf[i].value] = [i \in 0..3 |-> << 0, 8, 12, 16 >>[i + 1]]
    /\ [i \in 0..3 |-> ordered.buf[i].insertion_index]
           = [i \in 0..3 |-> << 1, 7, 8, 9 >>[i + 1]]

====
